---- MODULE Spec2Model ----
(***************************************************************************)
(* A model of the nginx buildpack's supply phase (src/nginx/supply) and of *)
(* its template renderer varify (src/nginx/varify).                        *)
(*                                                                         *)
(* Strings that take part in version resolution are modelled by their      *)
(* content: the empty string, a bare word ("mainline"), a version line     *)
(* ("1.m.*") or a concrete version ("1.m.p").  Two such values are equal   *)
(* exactly when the strings they stand for are equal.                      *)
(***************************************************************************)
EXTENDS Integers, Sequences, FiniteSets, TLC

\* Bounds of the model.
MaxMinor == 2
MaxPatch == 1
MaxAvail == 2
MaxLen == 2
MaxBindings == 3

VARIABLES
    pc,            \* position of the supplier in Run / InstallNginx
    VersionLines,  \* Supplier.VersionLines (a Go map; nil = empty function)
    ConfigVersion, \* Supplier.Config.Nginx.Version
    buildpackYml,  \* buildpack.yml of the build directory
    manifestYml,   \* version_lines of the buildpack's manifest.yml
    allVersions,   \* Manifest.AllDependencyVersions("nginx")
    version,       \* local variable \"version\" of findMatchingVersion
    dep,           \* the Dependency findMatchingVersion returned
    warned,        \* whether the "stable" warning was logged
    runErr,        \* the error returned to the caller ("" = nil)
    calls,         \* the collaborator calls made so far, in order
    nginxConf,     \* nginx.conf of the build directory
    tmpConfDir,    \* the temporary directory of validateNginxConfSyntax
    syntaxErr,     \* the pending return value of validateNginxConfSyntax
    vpc,           \* position of varify's main
    file,          \* the content of the file named by os.Args[1]
    body,          \* what ioutil.ReadFile returned
    tmpl,          \* the parsed template: its nodes in order
    idx,           \* the node Execute evaluates next
    env,           \* the process environment of varify
    services,      \* VCAP_SERVICES as json.Unmarshal decodes it
    exit,          \* how main ended ("" while it runs)
    svcArgs,       \* the arguments of a svcprop call
    svcResult,     \* what that call produced
    original       \* the content of the file when varify started

supplyVars == <<pc, VersionLines, ConfigVersion, buildpackYml, manifestYml,
                allVersions, version, dep, warned, runErr, calls, nginxConf,
                tmpConfDir, syntaxErr>>

varifyVars == <<vpc, file, body, tmpl, idx, env, services, exit, svcArgs,
                svcResult, original>>

vars == <<supplyVars, varifyVars>>

-----------------------------------------------------------------------------
\* Strings of the version domain.

EmptyStr == [kind |-> "empty", name |-> "", minor |-> 0, patch |-> 0]
Name(n) == [kind |-> "name", name |-> n, minor |-> 0, patch |-> 0]
Line(m) == [kind |-> "line", name |-> "", minor |-> m, patch |-> 0]
Ver(m, p) == [kind |-> "version", name |-> "", minor |-> m, patch |-> p]

Minors == 1..MaxMinor
Patches == 0..MaxPatch
Lines == {Line(m) : m \in Minors}
Versions == {Ver(m, p) : m \in Minors, p \in Patches}
AliasKeys == {Name("mainline"), Name("stable")}
LineValues == Lines \cup AliasKeys
Requested == {EmptyStr, Name("legacy")} \cup AliasKeys \cup Lines \cup Versions

\* Every map from some alias names to a bound string.
LineTables == UNION {[K -> LineValues] : K \in SUBSET AliasKeys}
NilMap == [k \in {} |-> EmptyStr]
AvailableSets == {S \in SUBSET Versions : Cardinality(S) <= MaxAvail}

NoDep == [name |-> "", version |-> EmptyStr]
NoErr == ""

-----------------------------------------------------------------------------
\* libbuildpack.FindMatchingVersion: the highest of \"versions\" that satisfies
\* the semver constraint, or an error.

Satisfies(v, constraint) ==
    \/ constraint.kind = "version" /\ v = constraint
    \/ constraint.kind = "line" /\ v.minor = constraint.minor

Newer(a, b) == a.minor > b.minor \/ (a.minor = b.minor /\ a.patch >= b.patch)

FindMatchingVersion(constraint, versions) ==
    LET matching == {v \in versions : Satisfies(v, constraint)}
    IN  IF constraint.kind \notin {"version", "line"}
        THEN [ok |-> FALSE, version |-> EmptyStr, err |-> "improper constraint"]
        ELSE IF matching = {}
        THEN [ok |-> FALSE, version |-> EmptyStr, err |-> "no match found"]
        ELSE [ok |-> TRUE, err |-> NoErr,
              version |-> CHOOSE v \in matching : \A w \in matching : Newer(v, w)]

-----------------------------------------------------------------------------
\* Supplier.findMatchingVersion, lines 223-231: the constraint that is handed
\* to version matching.

\* Variant: the substituted value is looked up in the table a second time.
EffectiveConstraint_Recursive(lines, requested) ==
    LET once == IF requested = EmptyStr THEN lines[Name("mainline")]
                ELSE IF requested \in DOMAIN lines THEN lines[requested]
                ELSE requested
    IN  IF requested = EmptyStr /\ Name("mainline") \notin DOMAIN lines
        THEN [ok |-> FALSE, version |-> requested, err |-> "no mainline"]
        ELSE [ok |-> TRUE, err |-> NoErr,
              version |-> IF once \in DOMAIN lines THEN lines[once] ELSE once]

\* Variant: the empty request defaults to the "stable" line.
EffectiveConstraint_DefaultStable(lines, requested) ==
    IF requested = EmptyStr
    THEN IF Name("stable") \in DOMAIN lines
         THEN [ok |-> TRUE, version |-> lines[Name("stable")], err |-> NoErr]
         ELSE [ok |-> FALSE, version |-> requested, err |-> "no mainline"]
    ELSE IF requested \in DOMAIN lines
         THEN [ok |-> TRUE, version |-> lines[requested], err |-> NoErr]
         ELSE [ok |-> TRUE, version |-> requested, err |-> NoErr]

EffectiveConstraint(lines, requested) ==
    IF requested = EmptyStr
    THEN IF Name("mainline") \in DOMAIN lines
         THEN [ok |-> TRUE, version |-> lines[Name("mainline")], err |-> NoErr]
         ELSE [ok |-> FALSE, version |-> requested, err |-> "no mainline"]
    ELSE IF requested \in DOMAIN lines
         THEN [ok |-> TRUE, version |-> lines[requested], err |-> NoErr]
         ELSE [ok |-> TRUE, version |-> requested, err |-> NoErr]

\* Supplier.findMatchingVersion as a whole.  \"matched\" tells whether version
\* matching was reached, \"constraint\" what it was handed.

\* Variant: the matching error is dropped and the constraint returned as the
\* version.
findMatchingVersion_Fabricate(lines, versions, depName, requested) ==
    LET c == EffectiveConstraint(lines, requested)
        r == FindMatchingVersion(c.version, versions)
    IN  IF ~c.ok
        THEN [ok |-> FALSE, dep |-> NoDep, err |-> c.err,
              matched |-> FALSE, constraint |-> c.version]
        ELSE [ok |-> TRUE, err |-> NoErr, matched |-> TRUE,
              constraint |-> c.version,
              dep |-> [name |-> depName,
                       version |-> IF r.ok THEN r.version ELSE c.version]]

findMatchingVersion(lines, versions, depName, requested) ==
    LET c == EffectiveConstraint(lines, requested)
        r == FindMatchingVersion(c.version, versions)
    IN  IF ~c.ok
        THEN [ok |-> FALSE, dep |-> NoDep, err |-> c.err,
              matched |-> FALSE, constraint |-> c.version]
        ELSE IF ~r.ok
        THEN [ok |-> FALSE, dep |-> NoDep, err |-> r.err,
              matched |-> TRUE, constraint |-> c.version]
        ELSE [ok |-> TRUE, err |-> NoErr, matched |-> TRUE,
              constraint |-> c.version,
              dep |-> [name |-> depName, version |-> r.version]]

\* Supplier.isStableLine.  A missing "stable" entry reads as the empty string.
isStableLine(lines, v) ==
    LET stableLine == IF Name("stable") \in DOMAIN lines
                      THEN lines[Name("stable")] ELSE EmptyStr
    IN  FindMatchingVersion(stableLine, {v}).ok

-----------------------------------------------------------------------------
\* The supplier's steps.

Call(op, arg, ok) == [op |-> op, arg |-> arg, ok |-> ok]

\* `return err` out of Run: nothing of Run runs after it.
Fail(e) == /\ runErr' = e
           /\ pc' = "done"

\* InstallNginx, lines 250-259.
InstallNginx_Resolve ==
    /\ pc = "InstallNginx"
    /\ LET r == findMatchingVersion(VersionLines, allVersions, "nginx", ConfigVersion)
       IN  /\ version' = r.constraint
           /\ calls' = IF r.matched
                       THEN Append(calls, Call("FindMatchingVersion", r.constraint, r.ok))
                       ELSE calls
           /\ dep' = r.dep
           /\ \/ /\ ~r.ok
                 /\ Fail("Could not determine version")
              \/ /\ r.ok
                 /\ pc' = "InstallDependency"
                 /\ UNCHANGED runErr
    /\ UNCHANGED <<VersionLines, ConfigVersion, buildpackYml, manifestYml,
                   allVersions, warned, nginxConf, tmpConfDir, syntaxErr>>
    /\ UNCHANGED varifyVars

\* InstallNginx, lines 261-269.
\* Variant: the Installer's error is dropped.
InstallDependency_IgnoreError ==
    /\ pc = "InstallDependency"
    /\ warned' = isStableLine(VersionLines, dep.version)
    /\ \E ok \in BOOLEAN :
          /\ calls' = Append(calls, Call("InstallDependency", dep.version, ok))
          /\ pc' = "AddBinDependencyLink"
          /\ UNCHANGED runErr
    /\ UNCHANGED <<VersionLines, ConfigVersion, buildpackYml, manifestYml,
                   allVersions, version, dep, nginxConf, tmpConfDir, syntaxErr>>
    /\ UNCHANGED varifyVars

InstallDependency ==
    /\ pc = "InstallDependency"
    /\ warned' = isStableLine(VersionLines, dep.version)
    /\ \E ok \in BOOLEAN :
          /\ calls' = Append(calls, Call("InstallDependency", dep.version, ok))
          /\ \/ /\ ~ok
                /\ Fail("install failed")
             \/ /\ ok
                /\ pc' = "AddBinDependencyLink"
                /\ UNCHANGED runErr
    /\ UNCHANGED <<VersionLines, ConfigVersion, buildpackYml, manifestYml,
                   allVersions, version, dep, nginxConf, tmpConfDir, syntaxErr>>
    /\ UNCHANGED varifyVars

\* InstallNginx, line 271.
AddBinDependencyLink ==
    /\ pc = "AddBinDependencyLink"
    /\ \E ok \in BOOLEAN :
          /\ calls' = Append(calls, Call("AddBinDependencyLink", dep.version, ok))
          /\ \/ /\ ~ok
                /\ Fail("link failed")
             \/ /\ ok
                /\ pc' = "validateNginxConf"
                /\ UNCHANGED runErr
    /\ UNCHANGED <<VersionLines, ConfigVersion, buildpackYml, manifestYml,
                   allVersions, version, dep, warned, nginxConf, tmpConfDir,
                   syntaxErr>>
    /\ UNCHANGED varifyVars

-----------------------------------------------------------------------------
\* Run, lines 76-79, and InstallVarify.
InstallVarify ==
    /\ pc = "Run"
    /\ \E outcome \in {"stat error", "exists", "copied", "copy error"} :
          LET ok == outcome \in {"exists", "copied"}
          IN  /\ calls' = Append(calls, Call("InstallVarify", EmptyStr, ok))
              /\ \/ /\ ~ok
                    /\ Fail(outcome)
                 \/ /\ ok
                    /\ pc' = "Setup"
                    /\ UNCHANGED runErr
    /\ UNCHANGED <<VersionLines, ConfigVersion, buildpackYml, manifestYml,
                   allVersions, version, dep, warned, nginxConf, tmpConfDir,
                   syntaxErr>>
    /\ UNCHANGED varifyVars

\* Run, lines 80-83, and Setup: buildpack.yml is loaded into Config when it is
\* there, the manifest's version_lines into VersionLines, and logs/ is made.
\* What an earlier statement stored stays stored when a later one fails.
Setup ==
    /\ pc = "Setup"
    /\ \E failure \in {"stat", "buildpack.yml", "manifest.yml", "mkdir", "none"} :
          LET config == IF buildpackYml.present /\ failure \notin {"stat", "buildpack.yml"}
                        THEN buildpackYml.version ELSE ConfigVersion
              lines == IF failure \in {"mkdir", "none"}
                       THEN manifestYml ELSE VersionLines
          IN  /\ failure = "buildpack.yml" => buildpackYml.present
              /\ ConfigVersion' = config
              /\ VersionLines' = lines
              /\ calls' = Append(calls, Call("Setup", EmptyStr, failure = "none"))
              /\ \/ /\ failure # "none"
                    /\ Fail(failure)
                 \/ /\ failure = "none"
                    /\ pc' = "InstallNginx"
                    /\ UNCHANGED runErr
    /\ UNCHANGED <<buildpackYml, manifestYml, allVersions, version, dep, warned,
                   nginxConf, tmpConfDir, syntaxErr>>
    /\ UNCHANGED varifyVars

\* regexp.Match("{{port}}", conf): the pattern compiles to the literal text.
HasPort(text) == \E i \in 1..Len(text) : text[i] = "{{port}}"

\* validateNginxConfExists.
validateNginxConfExists ==
    /\ pc = "validateNginxConf"
    /\ \E statOk \in BOOLEAN :
          LET ok == statOk /\ nginxConf.present
          IN  /\ calls' = Append(calls, Call("validateNginxConfExists", EmptyStr, ok))
              /\ \/ /\ ~statOk
                    /\ Fail("stat error")
                 \/ /\ statOk /\ ~nginxConf.present
                    /\ Fail("no nginx")
                 \/ /\ ok
                    /\ pc' = "validateNginxConfHasPort"
                    /\ UNCHANGED runErr
    /\ UNCHANGED <<VersionLines, ConfigVersion, buildpackYml, manifestYml,
                   allVersions, version, dep, warned, nginxConf, tmpConfDir,
                   syntaxErr>>
    /\ UNCHANGED varifyVars

\* validateNginxConfHasPort.
\* Variant: only the read is checked, not the placeholder.
validateNginxConfHasPort_IgnoreMissing ==
    /\ pc = "validateNginxConfHasPort"
    /\ \E readOk \in BOOLEAN :
          /\ calls' = Append(calls, Call("validateNginxConfHasPort", EmptyStr, readOk))
          /\ \/ /\ ~readOk
                /\ Fail("read error")
             \/ /\ readOk
                /\ pc' = "TempDir"
                /\ UNCHANGED runErr
    /\ UNCHANGED <<VersionLines, ConfigVersion, buildpackYml, manifestYml,
                   allVersions, version, dep, warned, nginxConf, tmpConfDir,
                   syntaxErr>>
    /\ UNCHANGED varifyVars

validateNginxConfHasPort ==
    /\ pc = "validateNginxConfHasPort"
    /\ \E readOk \in BOOLEAN :
          LET ok == readOk /\ HasPort(nginxConf.text)
          IN  /\ calls' = Append(calls, Call("validateNginxConfHasPort", EmptyStr, ok))
              /\ \/ /\ ~readOk
                    /\ Fail("read error")
                 \/ /\ readOk /\ ~HasPort(nginxConf.text)
                    /\ Fail("no {{port}} in nginx.conf")
                 \/ /\ ok
                    /\ pc' = "TempDir"
                    /\ UNCHANGED runErr
    /\ UNCHANGED <<VersionLines, ConfigVersion, buildpackYml, manifestYml,
                   allVersions, version, dep, warned, nginxConf, tmpConfDir,
                   syntaxErr>>
    /\ UNCHANGED varifyVars

\* validateNginxConfSyntax, lines 178-182: no directory, no deferred removal
\* when TempDir fails.
TempDir ==
    /\ pc = "TempDir"
    /\ \E ok \in BOOLEAN :
          /\ calls' = Append(calls, Call("TempDir", EmptyStr, ok))
          /\ \/ /\ ~ok
                /\ Fail("Error creating temp nginx conf dir")
                /\ UNCHANGED tmpConfDir
             \/ /\ ok
                /\ tmpConfDir' = "exists"
                /\ pc' = "CopyDirectory"
                /\ UNCHANGED runErr
    /\ UNCHANGED <<VersionLines, ConfigVersion, buildpackYml, manifestYml,
                   allVersions, version, dep, warned, nginxConf, syntaxErr>>
    /\ UNCHANGED varifyVars

\* A return of validateNginxConfSyntax after line 182: the deferred
\* os.RemoveAll runs before the caller sees the result.
\* Variant: the removal is the function's last statement instead of deferred.
ReturnFromSyntax_CleanupOnSuccessOnly(e) ==
    /\ syntaxErr' = e
    /\ IF e = NoErr
       THEN pc' = "RemoveAll" /\ UNCHANGED runErr
       ELSE Fail(e)

ReturnFromSyntax(e) ==
    /\ syntaxErr' = e
    /\ pc' = "RemoveAll"
    /\ UNCHANGED runErr

\* validateNginxConfSyntax, lines 184-186.
CopyDirectory ==
    /\ pc = "CopyDirectory"
    /\ \E ok \in BOOLEAN :
          /\ calls' = Append(calls, Call("CopyDirectory", EmptyStr, ok))
          /\ \/ /\ ~ok
                /\ ReturnFromSyntax("Error copying nginx.conf")
             \/ /\ ok
                /\ pc' = "varify"
                /\ UNCHANGED <<runErr, syntaxErr>>
    /\ UNCHANGED <<VersionLines, ConfigVersion, buildpackYml, manifestYml,
                   allVersions, version, dep, warned, nginxConf, tmpConfDir>>
    /\ UNCHANGED varifyVars

\* validateNginxConfSyntax, lines 188-196: the renderer on the copy.
RunVarify ==
    /\ pc = "varify"
    /\ \E ok \in BOOLEAN :
          /\ calls' = Append(calls, Call("varify", EmptyStr, ok))
          /\ \/ /\ ~ok
                /\ ReturnFromSyntax("varify failed")
             \/ /\ ok
                /\ pc' = "nginx -t"
                /\ UNCHANGED <<runErr, syntaxErr>>
    /\ UNCHANGED <<VersionLines, ConfigVersion, buildpackYml, manifestYml,
                   allVersions, version, dep, warned, nginxConf, tmpConfDir>>
    /\ UNCHANGED varifyVars

\* validateNginxConfSyntax, lines 198-204.
NginxTest ==
    /\ pc = "nginx -t"
    /\ \E ok \in BOOLEAN :
          /\ calls' = Append(calls, Call("nginx -t", EmptyStr, ok))
          /\ \/ /\ ~ok
                /\ ReturnFromSyntax("nginx.conf contains syntax errors")
             \/ /\ ok
                /\ ReturnFromSyntax(NoErr)
    /\ UNCHANGED <<VersionLines, ConfigVersion, buildpackYml, manifestYml,
                   allVersions, version, dep, warned, nginxConf, tmpConfDir>>
    /\ UNCHANGED varifyVars

\* The deferred os.RemoveAll(tmpConfDir), then Run's lines 90-93.
RemoveAll ==
    /\ pc = "RemoveAll"
    /\ tmpConfDir' = "removed"
    /\ calls' = Append(calls, Call("RemoveAll", EmptyStr, TRUE))
    /\ \/ /\ syntaxErr # NoErr
          /\ Fail(syntaxErr)
       \/ /\ syntaxErr = NoErr
          /\ pc' = "WriteProfileD"
          /\ UNCHANGED runErr
    /\ UNCHANGED <<VersionLines, ConfigVersion, buildpackYml, manifestYml,
                   allVersions, version, dep, warned, nginxConf, syntaxErr>>
    /\ UNCHANGED varifyVars

\* Run, lines 95-100, and WriteProfileD.
WriteProfileD ==
    /\ pc = "WriteProfileD"
    /\ \E ok \in BOOLEAN :
          /\ calls' = Append(calls, Call("WriteProfileD", EmptyStr, ok))
          /\ \/ /\ ~ok
                /\ Fail("profile.d error")
             \/ /\ ok
                /\ pc' = "done"
                /\ UNCHANGED runErr
    /\ UNCHANGED <<VersionLines, ConfigVersion, buildpackYml, manifestYml,
                   allVersions, version, dep, warned, nginxConf, tmpConfDir,
                   syntaxErr>>
    /\ UNCHANGED varifyVars

-----------------------------------------------------------------------------
\* varify.  A text is a sequence of pieces: single characters and, in a
\* template, whole directives.

\* html/template's escaper for a value in HTML text (its replacement table).
EscapeChar(c) ==
    CASE c = "&" -> <<"&", "a", "m", "p", ";">>
      [] c = "<" -> <<"&", "l", "t", ";">>
      [] c = ">" -> <<"&", "g", "t", ";">>
      [] c = "'" -> <<"&", "#", "3", "9", ";">>
      [] c = "+" -> <<"&", "#", "4", "3", ";">>
      [] OTHER -> <<c>>

RECURSIVE HTMLEscape(_)
HTMLEscape(chars) ==
    IF chars = <<>> THEN <<>>
    ELSE EscapeChar(Head(chars)) \o HTMLEscape(Tail(chars))

\* The parse of one piece of the file as a template node.
Malformed == {"{{", "{{nofunc}}"}

ParseNode(piece) ==
    CASE piece \in {"{{port}}", "{{ port }}"} -> [fn |-> "port", args |-> <<>>]
      [] piece = "{{env \"X\"}}" -> [fn |-> "env", args |-> <<"X">>]
      [] piece = "{{module \"m\"}}" -> [fn |-> "module", args |-> <<"m">>]
      [] piece = "{{svcprop \"db\" \"mydb\" \"uri\"}}" ->
            [fn |-> "svcprop", args |-> <<"db", "mydb", "uri">>]
      [] piece = "{{svcprop \"db\" \"mydb\" \"creds\" \"user\"}}" ->
            [fn |-> "svcprop", args |-> <<"db", "mydb", "creds", "user">>]
      [] OTHER -> [fn |-> "text", args |-> <<piece>>]

\* template.New("conf").Funcs(funcMap).Parse(string(body))
Parse(text) ==
    IF \E i \in 1..Len(text) : text[i] \in Malformed
    THEN [ok |-> FALSE, nodes |-> <<>>]
    ELSE [ok |-> TRUE, nodes |-> [i \in 1..Len(text) |-> ParseNode(text[i])]]

\* JSON values of a service binding: a string, a number, nothing, or an
\* object whose "user" member is (ut, us).
Absent == [t |-> "absent", s |-> <<>>, ut |-> "absent", us |-> <<>>]
JString(chars) == [t |-> "string", s |-> chars, ut |-> "absent", us |-> <<>>]
JNumber == [t |-> "number", s |-> <<>>, ut |-> "absent", us |-> <<>>]
JMap(ut, us) == [t |-> "map", s |-> <<>>, ut |-> ut, us |-> us]

Binding(nameT, name, uri, creds) ==
    [obj |-> TRUE, nameT |-> nameT, name |-> name, uri |-> uri, creds |-> creds]

MyDbFirst == Binding("string", "mydb", JString(<<"u", "1">>), JMap("string", <<"p", "1">>))
MyDbSecond == Binding("string", "mydb", JString(<<"u", "&">>), JMap("string", <<"p", "2">>))
OtherDb == Binding("string", "other", JString(<<"u", "3">>), JMap("string", <<"p", "3">>))
MyDbOddShapes == Binding("string", "mydb", JNumber, JString(<<"c">>))
MyDbBare == Binding("string", "mydb", Absent, JMap("absent", <<>>))
Nameless == Binding("absent", "", JString(<<"u", "4">>), JMap("string", <<"p", "4">>))
NumberNamed == Binding("number", "", JString(<<"u", "5">>), JMap("string", <<"p", "5">>))
NotAnObject == [obj |-> FALSE, nameT |-> "absent", name |-> "", uri |-> Absent,
                creds |-> Absent]

Bindings == {MyDbFirst, MyDbSecond, OtherDb, MyDbOddShapes, MyDbBare, Nameless,
             NumberNamed, NotAnObject}

Chars(name) ==
    CASE name = "mydb" -> <<"m", "y", "d", "b">>
      [] name = "other" -> <<"o", "t", "h", "e", "r">>
      [] OTHER -> <<>>

\* svc[propKey]: a key the object does not hold reads as nil.
Prop(svc, key) ==
    CASE key = "name" -> IF svc.nameT = "string" THEN JString(Chars(svc.name))
                         ELSE IF svc.nameT = "number" THEN JNumber ELSE Absent
      [] key = "uri" -> svc.uri
      [] key = "creds" -> svc.creds
      [] OTHER -> Absent

\* prop[subPropKey]
SubProp(prop, key) ==
    IF key = "user" THEN [t |-> prop.ut, s |-> prop.us] ELSE [t |-> "absent", s |-> <<>>]

\* A failed type assertion or index panics; text/template turns a panic of a
\* called function into an execution error.
Panic == [panic |-> TRUE, val |-> <<>>]
Return(chars) == [panic |-> FALSE, val |-> chars]

\* services[serviceType]: a type the map does not hold reads as a nil slice.
BindingsOf(catalog, serviceType) ==
    IF serviceType \in DOMAIN catalog THEN catalog[serviceType] ELSE <<>>

\* getServiceProperty's loop, lines 60-73, from binding i on.
RECURSIVE ScanBindings(_, _, _)
ScanBindings(list, args, i) ==
    IF i > Len(list) THEN Return(<<>>)
    ELSE LET svc == list[i]
             prop == Prop(svc, args[3])
         IN  IF ~svc.obj \/ svc.nameT # "string" THEN Panic
             ELSE IF svc.name = args[2] /\ Len(args) = 3
             THEN IF prop.t = "string" THEN Return(prop.s) ELSE Panic
             ELSE IF svc.name = args[2] /\ Len(args) = 4
             THEN IF prop.t # "map" \/ SubProp(prop, args[4]).t # "string"
                  THEN Panic
                  ELSE Return(SubProp(prop, args[4]).s)
             ELSE ScanBindings(list, args, i + 1)

\* Variant: the loop starts at the second binding.
getServiceProperty_SkipFirst(catalog, args) ==
    IF Len(args) < 3 THEN Panic
    ELSE ScanBindings(BindingsOf(catalog, args[1]), args, 2)

getServiceProperty(catalog, args) ==
    IF Len(args) < 3 THEN Panic
    ELSE ScanBindings(BindingsOf(catalog, args[1]), args, 1)

\* os.Getenv: an unset variable reads as the empty string.
Getenv(e, name) == IF name \in DOMAIN e THEN e[name] ELSE <<>>

\* filepath.Join(dir, name) for clean, slash-free parts.
Join(dir, name) == IF dir = <<>> THEN name ELSE dir \o <<"/">> \o name

\* The funcMap of main, lines 27-38, applied to a node's arguments.
Eval(node, e, catalog) ==
    CASE node.fn = "port" -> Return(Getenv(e, "PORT"))
      [] node.fn = "env" -> Return(Getenv(e, node.args[1]))
      [] node.fn = "module" ->
            Return(<<"load_module ">> \o Join(Getenv(e, "NGINX_MODULES"), <<node.args[1]>>)
                   \o <<".so;">>)
      [] node.fn = "svcprop" -> getServiceProperty(catalog, node.args)

\* main, lines 14-19.
ReadFile ==
    /\ vpc = "ReadFile"
    /\ \E ok \in BOOLEAN :
          \/ /\ ok
             /\ body' = file
             /\ vpc' = "Create"
             /\ UNCHANGED exit
          \/ /\ ~ok
             /\ exit' = "Could not read config file"
             /\ vpc' = "exit"
             /\ UNCHANGED body
    /\ UNCHANGED <<file, original, tmpl, idx, env, services, svcArgs, svcResult>>
    /\ UNCHANGED supplyVars

\* main, lines 21-25: os.Create truncates the file it opens.
Create ==
    /\ vpc = "Create"
    /\ \E ok \in BOOLEAN :
          \/ /\ ok
             /\ file' = <<>>
             /\ vpc' = "Parse"
             /\ UNCHANGED exit
          \/ /\ ~ok
             /\ exit' = "Could not open config file for writing"
             /\ vpc' = "exit"
             /\ UNCHANGED file
    /\ UNCHANGED <<body, original, tmpl, idx, env, services, svcArgs, svcResult>>
    /\ UNCHANGED supplyVars

\* main, lines 40-43.
ParseTemplate ==
    /\ vpc = "Parse"
    /\ \/ /\ Parse(body).ok
          /\ tmpl' = Parse(body).nodes
          /\ idx' = 1
          /\ vpc' = "Execute"
          /\ UNCHANGED exit
       \/ /\ ~Parse(body).ok
          /\ exit' = "Could not parse config file"
          /\ vpc' = "exit"
          /\ UNCHANGED <<tmpl, idx>>
    /\ UNCHANGED <<file, body, original, env, services, svcArgs, svcResult>>
    /\ UNCHANGED supplyVars

\* main, lines 45-47: Execute writes each node's output to the file handle as
\* it goes, a directive's value through the HTML escaper.
Execute ==
    /\ vpc = "Execute"
    /\ \/ /\ idx > Len(tmpl)
          /\ exit' = "ok"
          /\ vpc' = "exit"
          /\ UNCHANGED <<file, idx>>
       \/ /\ idx <= Len(tmpl)
          /\ tmpl[idx].fn = "text"
          /\ file' = file \o tmpl[idx].args
          /\ idx' = idx + 1
          /\ UNCHANGED <<vpc, exit>>
       \/ /\ idx <= Len(tmpl)
          /\ tmpl[idx].fn # "text"
          /\ ~Eval(tmpl[idx], env, services).panic
          /\ file' = file \o HTMLEscape(Eval(tmpl[idx], env, services).val)
          /\ idx' = idx + 1
          /\ UNCHANGED <<vpc, exit>>
       \/ /\ idx <= Len(tmpl)
          /\ tmpl[idx].fn # "text"
          /\ Eval(tmpl[idx], env, services).panic
          /\ exit' = "Could not write config file"
          /\ vpc' = "exit"
          /\ UNCHANGED <<file, idx>>
    /\ UNCHANGED <<body, original, tmpl, env, services, svcArgs, svcResult>>
    /\ UNCHANGED supplyVars

\* One call of getServiceProperty.
CallSvcprop ==
    /\ vpc = "svcprop"
    /\ svcResult' = getServiceProperty(services, svcArgs)
    /\ vpc' = "returned"
    /\ UNCHANGED <<file, body, original, tmpl, idx, env, services, exit, svcArgs>>
    /\ UNCHANGED supplyVars

-----------------------------------------------------------------------------
\* Initial values of the part a specification does not run.

NoResult == [panic |-> FALSE, val |-> <<"(none)">>]
EmptyCatalog == [t \in {} |-> <<>>]
Catalog(list) == [t \in {"db"} |-> list]

VarifyIdle ==
    /\ vpc = "idle"
    /\ file = <<>>
    /\ body = <<>>
    /\ original = <<>>
    /\ tmpl = <<>>
    /\ idx = 0
    /\ env = [PORT |-> <<>>]
    /\ services = EmptyCatalog
    /\ exit = ""
    /\ svcArgs = <<>>
    /\ svcResult = NoResult

SupplyIdle ==
    /\ pc = "idle"
    /\ VersionLines = NilMap
    /\ ConfigVersion = EmptyStr
    /\ allVersions = {}
    /\ buildpackYml = [present |-> FALSE, version |-> EmptyStr]
    /\ manifestYml = NilMap
    /\ version = EmptyStr
    /\ dep = NoDep
    /\ warned = FALSE
    /\ runErr = NoErr
    /\ calls = <<>>
    /\ nginxConf = [present |-> FALSE, text |-> <<>>]
    /\ tmpConfDir = "none"
    /\ syntaxErr = NoErr

-----------------------------------------------------------------------------
\* InstallNginx on its own, for every line table, requested version and set of
\* available versions.

InitResolve ==
    /\ pc = "InstallNginx"
    /\ VersionLines \in LineTables
    /\ ConfigVersion \in Requested
    /\ allVersions \in AvailableSets
    /\ buildpackYml = [present |-> TRUE, version |-> ConfigVersion]
    /\ manifestYml = VersionLines
    /\ version = EmptyStr
    /\ dep = NoDep
    /\ warned = FALSE
    /\ runErr = NoErr
    /\ calls = <<>>
    /\ nginxConf = [present |-> FALSE, text |-> <<>>]
    /\ tmpConfDir = "none"
    /\ syntaxErr = NoErr
    /\ VarifyIdle

NextResolve ==
    \/ InstallNginx_Resolve
    \/ InstallDependency
    \/ AddBinDependencyLink

SpecResolve == InitResolve /\ [][NextResolve]_vars

-----------------------------------------------------------------------------
\* Run from a freshly constructed Supplier, over a few build directories and
\* manifests.

RunRequested == {EmptyStr, Name("stable"), Ver(1, 0)}
RunTables == {[k \in AliasKeys |-> IF k = Name("mainline") THEN Line(1) ELSE Line(MaxMinor)],
              [k \in {Name("stable")} |-> Line(1)]}
RunAvailable == {{}, {Ver(1, 0), Ver(1, MaxPatch)}, {Ver(1, 0), Ver(MaxMinor, 0)}}
RunConfs == {<<>>, <<"listen">>, <<"listen", "{{port}}">>, <<"listen", "{{ port }}">>,
             <<"{{port}}", "{{">>}

InitRun ==
    /\ pc = "Run"
    /\ VersionLines = NilMap
    /\ ConfigVersion = EmptyStr
    /\ allVersions \in RunAvailable
    /\ buildpackYml \in {[present |-> FALSE, version |-> EmptyStr]}
                        \cup {[present |-> TRUE, version |-> v] : v \in RunRequested}
    /\ manifestYml \in RunTables
    /\ version = EmptyStr
    /\ dep = NoDep
    /\ warned = FALSE
    /\ runErr = NoErr
    /\ calls = <<>>
    /\ nginxConf \in {[present |-> FALSE, text |-> <<>>]}
                     \cup {[present |-> TRUE, text |-> t] : t \in RunConfs}
    /\ tmpConfDir = "none"
    /\ syntaxErr = NoErr
    /\ VarifyIdle

NextRun ==
    \/ InstallVarify
    \/ Setup
    \/ InstallNginx_Resolve
    \/ InstallDependency
    \/ AddBinDependencyLink
    \/ validateNginxConfExists
    \/ validateNginxConfHasPort
    \/ TempDir
    \/ CopyDirectory
    \/ RunVarify
    \/ NginxTest
    \/ RemoveAll
    \/ WriteProfileD

SpecRun == InitRun /\ [][NextRun]_vars

-----------------------------------------------------------------------------
\* varify's main on every template of up to MaxLen pieces.

Pieces == {"a", "{{port}}", "{{env \"X\"}}", "{{module \"m\"}}",
           "{{svcprop \"db\" \"mydb\" \"uri\"}}", "{{svcprop \"db\" \"mydb\" \"creds\" \"user\"}}",
           "{{", "{{nofunc}}"}
Templates == UNION {[1..n -> Pieces] : n \in 0..MaxLen}
Environments == {[PORT |-> p, X |-> x, NGINX_MODULES |-> <<"d">>] :
                    p \in {<<>>, <<"8", "0">>}, x \in {<<>>, <<"8">>, <<"a", "&">>}}
RenderCatalogs == {EmptyCatalog, Catalog(<<MyDbFirst>>), Catalog(<<OtherDb>>),
                   Catalog(<<Nameless, MyDbFirst>>), Catalog(<<MyDbSecond, MyDbFirst>>)}

InitVarify ==
    /\ vpc = "ReadFile"
    /\ file \in Templates
    /\ original = file
    /\ body = <<>>
    /\ tmpl = <<>>
    /\ idx = 0
    /\ env \in Environments
    /\ services \in RenderCatalogs
    /\ exit = ""
    /\ svcArgs = <<>>
    /\ svcResult = NoResult
    /\ SupplyIdle

NextVarify ==
    \/ ReadFile
    \/ Create
    \/ ParseTemplate
    \/ Execute

SpecVarify == InitVarify /\ [][NextVarify]_vars

-----------------------------------------------------------------------------
\* getServiceProperty on every catalog of up to MaxBindings bindings.

Catalogs == {EmptyCatalog} \cup
            {Catalog(l) : l \in UNION {[1..n -> Bindings] : n \in 0..MaxBindings}}
ArgLists == {<<"db", "mydb", "uri">>, <<"db", "mydb", "creds", "user">>,
             <<"db", "nope", "uri">>, <<"cache", "mydb", "uri">>,
             <<"db", "mydb", "creds", "pass">>, <<"db", "mydb">>}

InitSvcprop ==
    /\ vpc = "svcprop"
    /\ services \in Catalogs
    /\ svcArgs \in ArgLists
    /\ svcResult = NoResult
    /\ file = <<>>
    /\ original = <<>>
    /\ body = <<>>
    /\ tmpl = <<>>
    /\ idx = 0
    /\ env = [PORT |-> <<>>]
    /\ exit = ""
    /\ SupplyIdle

NextSvcprop == CallSvcprop

SpecSvcprop == InitSvcprop /\ [][NextSvcprop]_vars

-----------------------------------------------------------------------------
\* Properties.

CallsOf(op) == {i \in 1..Len(calls) : calls[i].op = op}

\* No available version satisfies the constraint that resolution arrives at.
NoneSatisfies ==
    LET c == EffectiveConstraint(VersionLines, ConfigVersion)
    IN  c.ok /\ \A v \in allVersions : ~Satisfies(v, c.version)

\* C1: a resolved Dependency's version, and every version the Installer is
\* called with, is one of the available versions; when no available version
\* satisfies the effective constraint, resolution ends in an error and the
\* Installer is never called.
C1_ResolvedVersionIsAvailable ==
    /\ dep # NoDep => dep.version \in allVersions
    /\ \A i \in CallsOf("InstallDependency") : calls[i].arg \in allVersions
    /\ (pc # "InstallNginx" /\ dep = NoDep) =>
          (runErr = "Could not determine version" /\ pc = "done")
    /\ (pc # "InstallNginx" /\ NoneSatisfies) =>
          (dep = NoDep /\ CallsOf("InstallDependency") = {})

C1_Witness ==
    /\ pc = "done"
    /\ ConfigVersion = Name("stable")
    /\ Name("stable") \in DOMAIN VersionLines
    /\ allVersions # {}
    /\ NoneSatisfies
    /\ runErr = "Could not determine version"
    /\ CallsOf("FindMatchingVersion") # {}

\* The outcome of the resolution that has run agrees with result r.
SameOutcome(r) ==
    \/ r.ok /\ dep = r.dep
    \/ ~r.ok /\ dep = NoDep

\* C2 as stated: with an empty requested version, resolution ends as it does
\* when the string bound to "mainline" is requested, whatever that string is.
C2_EmptyIsMainlineValue ==
    (/\ pc # "InstallNginx"
     /\ ConfigVersion = EmptyStr
     /\ Name("mainline") \in DOMAIN VersionLines) =>
        SameOutcome(findMatchingVersion(VersionLines, allVersions, "nginx",
                                        VersionLines[Name("mainline")]))

\* C2, amended: with an empty requested version, resolution ends as it does
\* when the string bound to "mainline" is requested, provided that string is
\* not itself a key of the line table.
C2_EmptyIsMainlineValueUnlessKey ==
    (/\ pc # "InstallNginx"
     /\ ConfigVersion = EmptyStr
     /\ Name("mainline") \in DOMAIN VersionLines
     /\ VersionLines[Name("mainline")] \notin DOMAIN VersionLines) =>
        SameOutcome(findMatchingVersion(VersionLines, allVersions, "nginx",
                                        VersionLines[Name("mainline")]))

C2_Witness ==
    /\ pc = "InstallDependency"
    /\ ConfigVersion = EmptyStr
    /\ Name("mainline") \in DOMAIN VersionLines
    /\ Name("stable") \in DOMAIN VersionLines
    /\ VersionLines[Name("mainline")] # VersionLines[Name("stable")]
    /\ VersionLines[Name("mainline")] \in Lines
    /\ Cardinality(allVersions) > 1
    /\ dep.version \in allVersions

\* C8: for a non-empty requested version, version matching is handed the
\* value bound to it when it is a key of the line table (that value as it
\* stands, also when it is a key itself), and the requested version unchanged
\* when it is not.
C8_AliasSubstitutedOnce ==
    ConfigVersion # EmptyStr =>
        /\ \A i \in CallsOf("FindMatchingVersion") :
              calls[i].arg = IF ConfigVersion \in DOMAIN VersionLines
                             THEN VersionLines[ConfigVersion]
                             ELSE ConfigVersion
        /\ pc # "InstallNginx" => CallsOf("FindMatchingVersion") # {}

C8_Witness ==
    /\ ConfigVersion = Name("mainline")
    /\ Name("mainline") \in DOMAIN VersionLines
    /\ VersionLines[Name("mainline")] = Name("stable")
    /\ Name("stable") \in DOMAIN VersionLines
    /\ VersionLines[Name("stable")] \in Lines
    /\ \E i \in CallsOf("FindMatchingVersion") : calls[i].arg = Name("stable")

\* The place of each step in Run.
Rank(op) ==
    CASE op = "InstallVarify" -> 1
      [] op = "Setup" -> 2
      [] op = "FindMatchingVersion" -> 3
      [] op = "InstallDependency" -> 4
      [] op = "AddBinDependencyLink" -> 5
      [] op = "validateNginxConfExists" -> 6
      [] op = "validateNginxConfHasPort" -> 7
      [] op = "TempDir" -> 8
      [] op = "CopyDirectory" -> 9
      [] op = "varify" -> 10
      [] op = "nginx -t" -> 11
      [] op = "RemoveAll" -> 12
      [] op = "WriteProfileD" -> 13

ValidationOps == {"validateNginxConfExists", "validateNginxConfHasPort", "TempDir",
                  "CopyDirectory", "varify", "nginx -t"}

Preceded(i, op) == \E j \in 1..(i - 1) : calls[j].op = op /\ calls[j].ok

\* C9: Run's steps happen in the order resolution, Installer, validation,
\* profile.d, none more than once; after a step fails nothing follows but the
\* deferred removal of the temporary directory, and Run ends with an error.
C9_RunIsFailFastAndOrdered ==
    /\ \A i, j \in 1..Len(calls) : i < j => Rank(calls[i].op) < Rank(calls[j].op)
    /\ \A i, j \in 1..Len(calls) : (i < j /\ ~calls[i].ok) => calls[j].op = "RemoveAll"
    /\ \A i \in CallsOf("InstallDependency") : Preceded(i, "FindMatchingVersion")
    /\ \A i \in 1..Len(calls) :
          calls[i].op \in ValidationOps =>
              Preceded(i, "InstallDependency") /\ Preceded(i, "AddBinDependencyLink")
    /\ \A i \in CallsOf("WriteProfileD") : Preceded(i, "nginx -t")
    /\ (\E i \in 1..Len(calls) : ~calls[i].ok) =>
          (pc \in {"RemoveAll", "done"} /\ (pc = "done" => runErr # NoErr))

C9_Witness ==
    /\ pc = "done"
    /\ runErr = "install failed"
    /\ Len(calls) = 4
    /\ calls[4] = Call("InstallDependency", dep.version, FALSE)
    /\ nginxConf.present

\* C5: the validation stages run in the order existence, port placeholder,
\* syntax check, each at most once, and the first failing stage's error is
\* returned; without nginx.conf no temporary directory is made and neither
\* the renderer nor nginx -t runs; without the literal {{port}} in nginx.conf
\* neither the renderer nor nginx -t runs.
C5_ValidationStagesShortCircuit ==
    /\ \A i, j \in 1..Len(calls) :
          (i < j /\ calls[i].op \in ValidationOps /\ calls[j].op \in ValidationOps) =>
              Rank(calls[i].op) < Rank(calls[j].op)
    /\ ~nginxConf.present =>
          CallsOf("TempDir") \cup CallsOf("varify") \cup CallsOf("nginx -t")
              \cup CallsOf("validateNginxConfHasPort") = {}
    /\ ~HasPort(nginxConf.text) =>
          CallsOf("TempDir") \cup CallsOf("varify") \cup CallsOf("nginx -t") = {}
    /\ \A i \in CallsOf("validateNginxConfExists") :
          (~calls[i].ok /\ pc = "done") => runErr \in {"no nginx", "stat error"}
    /\ \A i \in CallsOf("validateNginxConfHasPort") :
          (~calls[i].ok /\ pc = "done") =>
              runErr \in {"no {{port}} in nginx.conf", "read error"}
    /\ \A i \in CallsOf("nginx -t") :
          (~calls[i].ok /\ pc = "done") => runErr = "nginx.conf contains syntax errors"

C5_Witness ==
    /\ pc = "done"
    /\ nginxConf.present
    /\ nginxConf.text = <<"listen", "{{ port }}">>
    /\ runErr = "no {{port}} in nginx.conf"
    /\ CallsOf("validateNginxConfHasPort") # {}

IsNamed(b, n) == b.obj /\ b.nameT = "string" /\ b.name = n
FirstNamed(list, n) ==
    IF \E i \in 1..Len(list) : IsNamed(list[i], n)
    THEN CHOOSE i \in 1..Len(list) :
            IsNamed(list[i], n) /\ \A j \in 1..(i - 1) : ~IsNamed(list[j], n)
    ELSE 0

\* The property the arguments name, in binding b.
Wanted(b, args) ==
    IF Len(args) = 3 THEN [t |-> Prop(b, args[3]).t, s |-> Prop(b, args[3]).s]
    ELSE IF Prop(b, args[3]).t = "map" THEN SubProp(Prop(b, args[3]), args[4])
    ELSE [t |-> "absent", s |-> <<>>]

\* C7 as stated: svcprop returns the string property (or nested string) of
\* the first binding named N, whatever the other bindings of the type are.
C7_FirstNamedBindingWins ==
    LET list == BindingsOf(services, svcArgs[1])
        k == FirstNamed(list, svcArgs[2])
    IN  (/\ vpc = "returned"
         /\ Len(svcArgs) \in {3, 4}
         /\ k > 0
         /\ Wanted(list[k], svcArgs).t = "string") =>
            svcResult = Return(Wanted(list[k], svcArgs).s)

\* C7, amended: svcprop returns the string property (or nested string) of the
\* first binding named N, whatever bindings follow it, provided every binding
\* before it is an object with a string name.
C7_FirstNamedBindingWinsAfterNamedOnes ==
    LET list == BindingsOf(services, svcArgs[1])
        k == FirstNamed(list, svcArgs[2])
    IN  (/\ vpc = "returned"
         /\ Len(svcArgs) \in {3, 4}
         /\ k > 0
         /\ Wanted(list[k], svcArgs).t = "string"
         /\ \A j \in 1..(k - 1) : list[j].obj /\ list[j].nameT = "string") =>
            svcResult = Return(Wanted(list[k], svcArgs).s)

C7_Witness ==
    /\ vpc = "returned"
    /\ svcArgs = <<"db", "mydb", "creds", "user">>
    /\ services = Catalog(<<OtherDb, MyDbSecond, MyDbFirst>>)
    /\ svcResult = Return(<<"p", "2">>)

\* No binding of the type is named as the arguments ask.
Unmatched(catalog, args) ==
    \A i \in 1..Len(BindingsOf(catalog, args[1])) :
        ~IsNamed(BindingsOf(catalog, args[1])[i], args[2])

\* C3: a svcprop whose service type or name matches no binding aborts the
\* render: Execute never gets past such a directive.
C3_UnmatchedSvcpropAborts ==
    \A j \in 1..Len(tmpl) :
        (tmpl[j].fn = "svcprop" /\ Unmatched(services, tmpl[j].args)) => idx <= j

\* C4: when varify has ended in an error, the file holds its original text.
C4_FileUntouchedOnError ==
    (vpc = "exit" /\ exit # "ok") => file = original

\* The values of the env and port directives as the environment holds them.
RECURSIVE Verbatim(_, _)
Verbatim(nodes, e) ==
    IF nodes = <<>> THEN <<>>
    ELSE (CASE Head(nodes).fn = "text" -> Head(nodes).args
            [] Head(nodes).fn = "port" -> Getenv(e, "PORT")
            [] Head(nodes).fn = "env" -> Getenv(e, Head(nodes).args[1])
            [] OTHER -> <<>>) \o Verbatim(Tail(nodes), e)

\* C10: a rendered template of text, env and port directives holds, in place
\* of each directive, the environment's value character for character.
C10_EnvValuesVerbatim ==
    (/\ vpc = "exit"
     /\ exit = "ok"
     /\ \A j \in 1..Len(tmpl) : tmpl[j].fn \in {"text", "env", "port"}) =>
        file = Verbatim(tmpl, env)

====
